---------------------------- MODULE Spec2Model ----------------------------
(***************************************************************************)
(* Model of app.py, the Streamlit germination-metrics page.                *)
(*                                                                         *)
(* The page is a script that runs top to bottom after every interaction.   *)
(* The state is the value of the widgets (uploaded file, column mapping,   *)
(* edited table, N) together with what the last run of the script put on   *)
(* the page (out).  Every action is one interaction followed by the        *)
(* complete run of the script.  The checkbox that shows the unweighted     *)
(* coefficient changes one caption and one line of the summary only; the   *)
(* coefficient itself is computed in every run and is part of out.         *)
(*                                                                         *)
(* Numbers read from a file are exact rationals <<num, den>> with den > 0. *)
(* A float result of the engine is a rational as well; <<1, 0>> is +inf,   *)
(* <<-1, 0>> is -inf and <<0, 0>> is NaN, the results numpy gives for a    *)
(* division by zero.                                                       *)
(***************************************************************************)
EXTENDS Integers, Sequences, FiniteSets, TLC

VARIABLES uploaded, col_t, col_n, data_editor, N_total, out

vars == <<uploaded, col_t, col_n, data_editor, N_total, out>>

(***************************************************************************)
(* Bounds of the explored inputs.                                          *)
(***************************************************************************)
MaxRows == 2

(***************************************************************************)
(* Rational arithmetic.                                                    *)
(***************************************************************************)
Abs(x) == IF x < 0 THEN -x ELSE x

Sign(x) == IF x < 0 THEN -1 ELSE IF x > 0 THEN 1 ELSE 0

RECURSIVE GCD(_, _)
GCD(a, b) == IF b = 0 THEN a ELSE GCD(b, a % b)

\* n / d as numpy's float division gives it, in lowest terms
Rat(n, d) ==
    IF d = 0 THEN <<Sign(n), 0>>
    ELSE LET g == GCD(Abs(n), Abs(d))
             s == Sign(d)
         IN  <<(s * n) \div g, (s * d) \div g>>

NaN == <<0, 0>>
Inf == <<1, 0>>

IsNaN(r) == r = NaN

\* a <= b for two rationals with a denominator >= 0, neither of them NaN
RatLeq(a, b) == a[1] * b[2] <= b[1] * a[2]

RatLess(a, b) == a[1] * b[2] < b[1] * a[2]

(***************************************************************************)
(* Cells and tables.  A cell of a raw table is a number, a text that is    *)
(* no number, or a missing value.                                          *)
(***************************************************************************)
Num(n, d) == [kind |-> "num", v |-> Rat(n, d)]
Text      == [kind |-> "text", v |-> NaN]
Missing   == [kind |-> "missing", v |-> NaN]

RECURSIVE SumSeq(_)
SumSeq(s) == IF s = <<>> THEN 0 ELSE Head(s) + SumSeq(Tail(s))

\* The sidebar's template and the editor's initial table
default_t == [i \in 1..12 |-> i]
default_n == <<0, 2, 5, 12, 15, 5, 4, 0, 1, 0, 0, 0>>
init_df == [i \in 1..12 |-> <<Num(default_t[i], 1), Num(default_n[i], 1)>>]


(***************************************************************************)
(* Reading the upload and choosing the raw table (lines 70-111).           *)
(***************************************************************************)
NoUpload == [kind |-> "none", rows |-> <<>>, ncols |-> 0]
BadUpload == [kind |-> "bad", rows |-> <<>>, ncols |-> 0]
CsvFile(rows, ncols) == [kind |-> "csv", rows |-> rows, ncols |-> ncols]

\* pd.read_csv in its try block: the frame, or None with the error shown
read_csv(file) ==
    IF file.kind = "csv"
    THEN [uploaded_df |-> file.rows, isNone |-> FALSE, error |-> FALSE]
    ELSE [uploaded_df |-> <<>>, isNone |-> TRUE, error |-> file.kind = "bad"]

\* the two select boxes' initial choices: index=0 and index=min(1, len(cols)-1)
default_col_t == 0
default_col_n(ncols) == IF ncols - 1 < 1 THEN ncols - 1 ELSE 1

\* the branch "uploaded_df is not None and not uploaded_df.empty"
UsesCsv(file) ==
    LET r == read_csv(file) IN ~r.isNone /\ r.uploaded_df # <<>>

\* df_raw: the two mapped columns of the upload, else the edited table
df_raw(file, ct, cn, edited) ==
    IF UsesCsv(file)
    THEN LET u == read_csv(file).uploaded_df
         IN  [i \in DOMAIN u |-> <<u[i][ct + 1], u[i][cn + 1]>>]
    ELSE edited

(***************************************************************************)
(* The normalizer (lines 116-131).                                         *)
(***************************************************************************)
\* pd.to_numeric(errors="coerce") on one cell
to_numeric(c) == IF c.kind = "num" THEN c.v ELSE NaN

NotNaRow(r) == ~IsNaN(r[1]) /\ ~IsNaN(r[2])

dropna(df) == SelectSeq(df, NotNaRow)

\* r placed behind every row whose day is <= its own
RECURSIVE InsertByDay(_, _)
InsertByDay(r, s) ==
    IF s = <<>> THEN <<r>>
    ELSE IF RatLess(r[1], Head(s)[1]) THEN <<r>> \o s
    ELSE <<Head(s)>> \o InsertByDay(r, Tail(s))

RECURSIVE SortFrom(_, _)
SortFrom(done, rest) ==
    IF rest = <<>> THEN done
    ELSE SortFrom(InsertByDay(Head(rest), done), Tail(rest))

\* faulty variant: rows are left in the order of the file
sort_values_unsorted(df) == df

\* df.sort_values("t", kind="mergesort"): ascending by day, ties keep their order
sort_values(df) == SortFrom(<<>>, df)

\* Series.round(): to the nearest integer, a half to the even neighbour
round(r) ==
    LET q == r[1] \div r[2]
        rem2 == 2 * (r[1] - q * r[2])
    IN  IF rem2 < r[2] THEN q
        ELSE IF rem2 > r[2] THEN q + 1
        ELSE IF q % 2 = 0 THEN q ELSE q + 1

\* faulty variant: negative counts are kept
clip_none(x) == x

\* Series.clip(lower=0) on one value
clip(x) == IF x < 0 THEN 0 ELSE x

\* lines 116-131: the table of integer rows <<t, n>>
Normalize(raw) ==
    LET coerced == [i \in DOMAIN raw |->
                       <<to_numeric(raw[i][1]), to_numeric(raw[i][2])>>]
        kept == dropna(coerced)
        sorted == IF kept # <<>> THEN sort_values(kept) ELSE kept
    IN  [i \in DOMAIN sorted |->
            <<round(sorted[i][1]), clip(round(sorted[i][2]))>>]

Col_t(df) == [i \in DOMAIN df |-> df[i][1]]
Col_n(df) == [i \in DOMAIN df |-> df[i][2]]

\* faulty variant: only an empty table is refused
NoValidData_emptyOnly(df) == df = <<>>

\* line 136: df.empty or df["n"].sum() == 0
NoValidData(df) == df = <<>> \/ SumSeq(Col_n(df)) = 0


(***************************************************************************)
(* The engine (lines 139-160).  t and n are the columns of the normalized  *)
(* table.                                                                  *)
(***************************************************************************)
germinated(n) == SumSeq(n)

\* faulty variant: the running sum leaves out the row itself
cumsum_exclusive(n) == [i \in DOMAIN n |-> SumSeq(SubSeq(n, 1, i - 1))]

RECURSIVE CumFrom(_, _)
CumFrom(acc, rest) ==
    IF rest = <<>> THEN <<>>
    ELSE <<acc + Head(rest)>> \o CumFrom(acc + Head(rest), Tail(rest))

\* np.cumsum(n)
cum_counts(n) == CumFrom(0, n)

\* 100.0 * cum_counts / N_total
cum_pct_series(n, N) == [i \in DOMAIN n |-> Rat(100 * cum_counts(n)[i], N)]

\* 100.0 * germinated / N_total
cum_germ_pct_final(n, N) == Rat(100 * germinated(n), N)

\* (t * n).sum()
SumTN(t, n) == SumSeq([i \in DOMAIN t |-> t[i] * n[i]])

\* faulty variant: the plain mean of the products
MDG_perRow(t, n) == Rat(SumTN(t, n), Len(t))

MDG(t, n) == Rat(SumTN(t, n), germinated(n))

MGS(t, n) == Rat(germinated(n), SumTN(t, n))

\* ((t - m) ** 2 * n).sum() / germinated for a mean m = <<a, b>>
VarAbout(t, n, m) ==
    Rat(SumSeq([i \in DOMAIN t |->
                   (t[i] * m[2] - m[1]) * (t[i] * m[2] - m[1]) * n[i]]),
        m[2] * m[2] * germinated(n))

\* faulty variant: the deviations are taken from day 0
var_w_aboutZero(t, n) == VarAbout(t, n, <<0, 1>>)

var_w(t, n) == VarAbout(t, n, MDG(t, n))

\* np.inf if var == 0 else 1.0 / var
UGC(var) == IF var = <<0, 1>> THEN Inf ELSE Rat(var[2], var[1])

UGC_weighted(t, n) == UGC(var_w(t, n))

\* t.mean(): every row counts once
mean_unw(t) == Rat(SumSeq(t), Len(t))

var_unw(t, n) == VarAbout(t, n, mean_unw(t))

UGC_unweighted(t, n) == UGC(var_unw(t, n))

\* faulty variant: the warning also fires when every seed germinated
ExceedsTotal_orEqual(g, N) == g >= N

\* line 175: germinated > N_total
ExceedsTotal(g, N) == g > N


(***************************************************************************)
(* The downloaded table (lines 210-219) as text, and reading it back.      *)
(* An integer is written as a sign and decimal digits; a float is written  *)
(* by its shortest representation, which reads back as the same float.     *)
(***************************************************************************)
RECURSIVE Digits(_)
Digits(k) == IF k < 10 THEN <<k>> ELSE Digits(k \div 10) \o <<k % 10>>

RECURSIVE DigitsValue(_)
DigitsValue(d) ==
    IF d = <<>> THEN 0 ELSE 10 * DigitsValue(SubSeq(d, 1, Len(d) - 1)) + d[Len(d)]

\* faulty variant: the minus sign is not written
IntField_unsigned(i) ==
    [float |-> FALSE, neg |-> FALSE, digits |-> Digits(Abs(i)), v |-> NaN]

IntField(i) ==
    [float |-> FALSE, neg |-> i < 0, digits |-> Digits(Abs(i)), v |-> NaN]

FloatField(r) == [float |-> TRUE, neg |-> FALSE, digits |-> <<>>, v |-> r]

\* out.to_csv(index=False): t, n, cum, cum% of every row
to_csv(df, N) ==
    [i \in DOMAIN df |->
        <<IntField(df[i][1]), IntField(df[i][2]),
          FloatField(Rat(cum_counts(Col_n(df))[i], 1)),
          FloatField(cum_pct_series(Col_n(df), N)[i])>>]

ParseField(f) ==
    IF f.float THEN [kind |-> "num", v |-> f.v]
    ELSE Num((IF f.neg THEN -1 ELSE 1) * DigitsValue(f.digits), 1)

\* pd.read_csv on a downloaded table
ParseCsv(text) ==
    [i \in DOMAIN text |-> [j \in DOMAIN text[i] |-> ParseField(text[i][j])]]

(***************************************************************************)
(* One run of the script: everything the page shows afterwards.            *)
(***************************************************************************)
NoResults(err, df) ==
    [error |-> err, df |-> df, warning_nodata |-> TRUE, engine |-> FALSE,
     germinated |-> 0, cum_counts |-> <<>>, cum_pct_series |-> <<>>,
     cum_germ_pct_final |-> NaN, MDG |-> NaN, MGS |-> NaN,
     var_w |-> NaN, UGC_weighted |-> NaN,
     var_unw |-> NaN, UGC_unweighted |-> NaN,
     metrics |-> FALSE,
     warning_exceeds |-> FALSE, download |-> <<>>, summary |-> FALSE]

Results(err, df, N) ==
    LET t == Col_t(df)
        n == Col_n(df)
    IN  [error |-> err, df |-> df, warning_nodata |-> FALSE, engine |-> TRUE,
         germinated |-> germinated(n), cum_counts |-> cum_counts(n),
         cum_pct_series |-> cum_pct_series(n, N),
         cum_germ_pct_final |-> cum_germ_pct_final(n, N),
         MDG |-> MDG(t, n), MGS |-> MGS(t, n),
         var_w |-> var_w(t, n), UGC_weighted |-> UGC_weighted(t, n),
         var_unw |-> var_unw(t, n), UGC_unweighted |-> UGC_unweighted(t, n),
         metrics |-> TRUE,
         warning_exceeds |-> ExceedsTotal(germinated(n), N),
         download |-> to_csv(df, N), summary |-> TRUE]

ScriptRun(file, ct, cn, edited, N) ==
    LET err == read_csv(file).error
        df == Normalize(df_raw(file, ct, cn, edited))
    IN  IF NoValidData(df) THEN NoResults(err, df)
        ELSE Results(err, df, N)

(***************************************************************************)
(* The inputs explored.                                                    *)
(***************************************************************************)
DayCells == {Num(-1, 1), Num(0, 1), Num(1, 2), Num(1, 1)}
CountCells == {Num(-17, 5), Num(1, 1), Num(2, 1), Text}

TwoColumnRows == {<<d, c>> : d \in DayCells, c \in CountCells}
OneColumnRows == {<<d>> : d \in DayCells}

UploadFiles ==
    {BadUpload}
    \cup {CsvFile(r, 2) : r \in UNION {[1..k -> TwoColumnRows] : k \in 0..MaxRows}}
    \cup {CsvFile(r, 1) : r \in UNION {[1..k -> OneColumnRows] : k \in 1..MaxRows}}

\* the editor's cells are integers >= 0 (min_value=0, step=1) or empty
EditorTables ==
    { init_df,
      <<>>,
      << <<Num(3, 1), Num(60, 1)>> >>,
      << <<Num(0, 1), Num(5, 1)>> >>,
      << <<Missing, Num(2, 1)>>, <<Num(4, 1), Num(0, 1)>> >> }

NChoices == {2, 50}

\* the row orders tried for an uploaded file (none for a longer file)
Reorderings(file) ==
    IF Len(file.rows) <= MaxRows THEN Permutations(DOMAIN file.rows) ELSE {}

\* the columns offered to the two select boxes
MappableColumns(file) == {c \in {0, 1} : c < file.ncols}

(***************************************************************************)
(* The state machine.                                                      *)
(***************************************************************************)
\* a data_editor that is not drawn in a run starts again from init_df
EditorAfter(file, edited) == IF UsesCsv(file) THEN init_df ELSE edited

Rerun ==
    out' = ScriptRun(uploaded', col_t', col_n', data_editor', N_total')

Init ==
    /\ uploaded = NoUpload
    /\ col_t = 0
    /\ col_n = 0
    /\ data_editor = init_df
    /\ N_total = 50
    /\ out = ScriptRun(NoUpload, 0, 0, init_df, 50)

\* a file is put into the empty uploader (replacing a file is RemoveUpload
\* followed by Upload: a run depends on the widgets' values only)
Upload(file) ==
    /\ uploaded.kind = "none"
    /\ uploaded' = file
    /\ col_t' = IF UsesCsv(file) THEN default_col_t ELSE 0
    /\ col_n' = IF UsesCsv(file) THEN default_col_n(file.ncols) ELSE 0
    /\ data_editor' = EditorAfter(file, data_editor)
    /\ UNCHANGED N_total
    /\ Rerun

RemoveUpload ==
    /\ uploaded.kind # "none"
    /\ uploaded' = NoUpload
    /\ col_t' = 0
    /\ col_n' = 0
    /\ UNCHANGED <<data_editor, N_total>>
    /\ Rerun

\* another choice in the select boxes; for a file of two columns the
\* choices explored give the two roles different columns
SelectColumns(ct, cn) ==
    /\ UsesCsv(uploaded)
    /\ <<ct, cn>> # <<col_t, col_n>>
    /\ ct # cn \/ uploaded.ncols = 1
    /\ col_t' = ct
    /\ col_n' = cn
    /\ UNCHANGED <<uploaded, data_editor, N_total>>
    /\ Rerun

\* the same file uploaded again with its rows in another order
ReorderRows(p) ==
    /\ UsesCsv(uploaded)
    /\ uploaded' = [uploaded EXCEPT
                       !.rows = [i \in DOMAIN uploaded.rows |-> uploaded.rows[p[i]]]]
    /\ uploaded' # uploaded
    /\ UNCHANGED <<col_t, col_n, data_editor, N_total>>
    /\ Rerun

\* the downloaded table is uploaded in place of the current source
ReuploadExport ==
    /\ out.engine
    /\ uploaded' = CsvFile(ParseCsv(out.download), 4)
    /\ col_t' = default_col_t
    /\ col_n' = default_col_n(4)
    /\ data_editor' = EditorAfter(uploaded', data_editor)
    /\ UNCHANGED N_total
    /\ Rerun

EditTable(tbl) ==
    /\ ~UsesCsv(uploaded)
    /\ tbl # data_editor
    /\ data_editor' = tbl
    /\ UNCHANGED <<uploaded, col_t, col_n, N_total>>
    /\ Rerun

SetN(N) ==
    /\ N # N_total
    /\ N_total' = N
    /\ UNCHANGED <<uploaded, col_t, col_n, data_editor>>
    /\ Rerun

Next ==
    \/ \E file \in UploadFiles : Upload(file)
    \/ RemoveUpload
    \/ \E ct \in MappableColumns(uploaded), cn \in MappableColumns(uploaded) :
          SelectColumns(ct, cn)
    \/ \E p \in Reorderings(uploaded) : ReorderRows(p)
    \/ ReuploadExport
    \/ \E tbl \in EditorTables : EditTable(tbl)
    \/ \E N \in NChoices : SetN(N)

Spec == Init /\ [][Next]_vars


(***************************************************************************)
(* Properties.                                                             *)
(***************************************************************************)
\* the raw table the last run normalized
RawTable == df_raw(uploaded, col_t, col_n, data_editor)

ValidRaw(r) == r[1].kind = "num" /\ r[2].kind = "num"

Occurrences(r, s) == Cardinality({i \in DOMAIN s : s[i] = r})

SameRows(a, b) ==
    /\ Len(a) = Len(b)
    /\ \A i \in DOMAIN a : Occurrences(a[i], a) = Occurrences(a[i], b)

\* a step that replaces the uploaded file by the same rows in another order
IsReorderStep ==
    /\ UsesCsv(uploaded)
    /\ uploaded' # uploaded
    /\ \E p \in Reorderings(uploaded) :
          uploaded' = [uploaded EXCEPT
                          !.rows = [i \in DOMAIN uploaded.rows |-> uploaded.rows[p[i]]]]
    /\ col_t' = col_t
    /\ col_n' = col_n
    /\ N_total' = N_total

\* a step that uploads the table downloaded from the current page
IsReimportStep ==
    /\ out.engine
    /\ uploaded' = CsvFile(ParseCsv(out.download), 4)
    /\ col_t' = 0
    /\ col_n' = 1

\* C1 (as claimed): after an upload that cannot be parsed the error is shown
\* and nothing is computed: no metrics, no cumulative series, no download
\* table, no summary.
C1_UnparseableUploadStops ==
    uploaded.kind = "bad" =>
        /\ out.error
        /\ ~out.engine
        /\ ~out.metrics
        /\ out.cum_counts = <<>>
        /\ out.cum_pct_series = <<>>
        /\ out.download = <<>>
        /\ ~out.summary

\* C2: the "no valid data" warning is shown exactly when the normalized table
\* has no rows or its counts sum to 0; then the engine does not run, and in
\* every other case it runs with germinated > 0.
C2_EmptyIffNoRowsOrZeroSum ==
    /\ out.warning_nodata <=> (out.df = <<>> \/ SumSeq(Col_n(out.df)) = 0)
    /\ out.engine <=> ~out.warning_nodata
    /\ out.engine => out.germinated > 0
    /\ ~out.engine => ~out.metrics /\ out.download = <<>> /\ ~out.summary

\* C2 witness: an upload whose rows all survive with count 0 is refused
C2_Witness_AllCountsZero ==
    /\ UsesCsv(uploaded)
    /\ Len(out.df) = Len(uploaded.rows)
    /\ Len(out.df) >= 2
    /\ \A i \in DOMAIN out.df : out.df[i][2] = 0
    /\ out.warning_nodata
    /\ ~out.engine

\* C3 (as claimed): uploading the same rows in another order leaves the whole
\* result unchanged, the cumulative series included.
C3_ReorderSameBundle == [][IsReorderStep => out' = out]_vars

\* rows with the same raw day have the same normalized count
TiesAgree(raw) ==
    \A i, j \in DOMAIN raw :
        (ValidRaw(raw[i]) /\ ValidRaw(raw[j]) /\ raw[i][1].v = raw[j][1].v)
            => clip(round(raw[i][2].v)) = clip(round(raw[j][2].v))

\* C3 (amended): uploading the same rows in another order leaves the outcome
\* (refused or computed), the normalized rows as a multiset, the day column,
\* germinated, the final percentage, MDG and MGS unchanged; the whole result,
\* with the row order and the cumulative series, is unchanged whenever rows
\* with the same raw day have the same normalized count.
C3_ReorderSameTotals ==
    [][IsReorderStep =>
          /\ out'.engine = out.engine
          /\ out'.warning_nodata = out.warning_nodata
          /\ SameRows(out'.df, out.df)
          /\ Col_t(out'.df) = Col_t(out.df)
          /\ out'.germinated = out.germinated
          /\ out'.cum_germ_pct_final = out.cum_germ_pct_final
          /\ out'.MDG = out.MDG
          /\ out'.MGS = out.MGS
          /\ out'.warning_exceeds = out.warning_exceeds
          /\ (TiesAgree(RawTable) => out' = out)]_vars

\* C3 witness: two rows of the upload share a raw day, differ in their count,
\* and the engine ran on them
C3_Witness_TiedRows ==
    /\ UsesCsv(uploaded)
    /\ out.engine
    /\ ~TiesAgree(RawTable)
    /\ \E i \in 1..(Len(out.df) - 1) :
          out.df[i][1] = out.df[i + 1][1] /\ out.df[i][2] # out.df[i + 1][2]

\* C4: the "exceeds N" warning is shown exactly when germinated > N, and with
\* it the metrics, the download table and the summary are still produced,
\* the final percentage being 100 * germinated / N.
C4_ExceedsIsNonBlocking ==
    /\ out.warning_exceeds <=> (out.engine /\ out.germinated > N_total)
    /\ out.warning_exceeds =>
          /\ out.metrics
          /\ out.summary
          /\ Len(out.download) = Len(out.df)
          /\ Len(out.cum_pct_series) = Len(out.df)
          /\ out.cum_germ_pct_final[2] > 0
          /\ out.cum_germ_pct_final[1] * N_total
                = 100 * out.germinated * out.cum_germ_pct_final[2]

\* C4 witness: germinated = 60 with N = 50 gives the warning and 120 %
C4_Witness_60of50 ==
    /\ out.germinated = 60
    /\ N_total = 50
    /\ out.warning_exceeds
    /\ out.cum_germ_pct_final = <<120, 1>>
    /\ out.metrics

\* C5: the cumulative counts have one entry per row, entry i is the sum of the
\* counts of the rows up to i, they never decrease, the last one is
\* germinated, and the last cumulative percentage is the final percentage
\* 100 * germinated / N.
C5_CumulativeCounts ==
    out.engine =>
        /\ Len(out.cum_counts) = Len(out.df)
        /\ Len(out.cum_pct_series) = Len(out.df)
        /\ \A i \in DOMAIN out.df :
              out.cum_counts[i] = SumSeq(SubSeq(Col_n(out.df), 1, i))
        /\ \A i \in 1..(Len(out.df) - 1) : out.cum_counts[i] <= out.cum_counts[i + 1]
        /\ out.cum_counts[Len(out.df)] = out.germinated
        /\ out.cum_pct_series[Len(out.df)] = out.cum_germ_pct_final
        /\ out.cum_germ_pct_final[1] * N_total
              = 100 * out.germinated * out.cum_germ_pct_final[2]

\* C5 witness: a run over several rows whose running sum grows
C5_Witness_GrowingSum ==
    /\ out.engine
    /\ Len(out.df) >= 2
    /\ 0 < out.cum_counts[1]
    /\ out.cum_counts[1] < out.cum_counts[Len(out.df)]

AllSameDay(df) == \A i \in DOMAIN df : df[i][1] = df[1][1]

\* C6: when every row has the same day d, MDG is d, the weighted variance is
\* 0 and the weighted coefficient is +inf.
C6_SingleDayIsInfinite ==
    (out.engine /\ AllSameDay(out.df)) =>
        /\ out.MDG = <<out.df[1][1], 1>>
        /\ out.var_w = <<0, 1>>
        /\ out.UGC_weighted = Inf

\* C6 witness: several rows with positive counts, all on one day
C6_Witness_SeveralRowsOneDay ==
    /\ out.engine
    /\ Len(out.df) >= 2
    /\ AllSameDay(out.df)
    /\ out.df[1][1] # 0
    /\ \A i \in DOMAIN out.df : out.df[i][2] > 0
    /\ out.df[1][2] # out.df[2][2]

\* C7: uploading the downloaded table and mapping its first two columns gives
\* the same normalized table, row for row.
C7_ReimportReproducesTable ==
    [][IsReimportStep =>
          /\ out'.df = out.df
          /\ out'.engine]_vars

\* C7 witness: the page shows the result of a re-uploaded download with a
\* negative day, a tie and a clamped count
C7_Witness_Reimported ==
    /\ uploaded.kind = "csv"
    /\ uploaded.ncols = 4
    /\ uploaded.rows = ParseCsv(out.download)
    /\ out.engine
    /\ Len(out.df) >= 2
    /\ out.df[1][1] < 0
    /\ out.df[1][2] = 0

IsSortedByDay(df) == \A i \in 1..(Len(df) - 1) : df[i][1] <= df[i + 1][1]

\* C8: the table the engine works on is not empty, its days ascend, every
\* count is an integer >= 0 and the counts sum to more than 0.
C8_EngineInputInvariant ==
    out.engine =>
        /\ out.df # <<>>
        /\ IsSortedByDay(out.df)
        /\ \A i \in DOMAIN out.df : out.df[i][1] \in Int /\ out.df[i][2] \in Nat
        /\ SumSeq(Col_n(out.df)) > 0

\* C8 witness: the engine ran on an upload given in descending day order
\* that holds the raw count -3.4, which became 0
C8_Witness_ClampedAndSorted ==
    /\ UsesCsv(uploaded)
    /\ out.engine
    /\ Len(out.df) = 2
    /\ ValidRaw(RawTable[1]) /\ ValidRaw(RawTable[2])
    /\ RatLess(RawTable[2][1].v, RawTable[1][1].v)
    /\ RawTable[2][2].v = <<-17, 5>>
    /\ out.df[1][2] = 0

\* C9 (as claimed): when the engine runs, the sum of day * count is 0 only if
\* every row with a positive count has day 0.
C9_ZeroDenominatorOnlyAtDayZero ==
    (out.engine /\ SumTN(Col_t(out.df), Col_n(out.df)) = 0) =>
        \A i \in DOMAIN out.df : out.df[i][2] > 0 => out.df[i][1] = 0

\* C10: the variance about the plain mean of the days is at least the
\* variance about MDG, so the unweighted coefficient is at most the weighted
\* one and is +inf only if the weighted one is.
C10_UnweightedVarianceIsLarger ==
    out.engine =>
        /\ RatLeq(<<0, 1>>, out.var_w)
        /\ RatLeq(out.var_w, out.var_unw)
        /\ RatLeq(out.UGC_unweighted, out.UGC_weighted)
        /\ out.UGC_unweighted = Inf => out.UGC_weighted = Inf

\* C10 witness: a run where the two variances differ
C10_Witness_StrictlyLarger ==
    /\ out.engine
    /\ RatLess(out.var_w, out.var_unw)
    /\ RatLess(<<0, 1>>, out.var_w)
    /\ RatLess(out.UGC_unweighted, out.UGC_weighted)

=============================================================================
